---- MODULE Spec2Model ----
(***************************************************************************)
(* Model of generate-icons.py: the PWA icon generator.                     *)
(*                                                                         *)
(* The script is a single sequential process.  Its state is the position   *)
(* in main / generate_all_icons (pc), the local variables of those         *)
(* functions, and the filesystem it reads and writes.  The inputs (argv,   *)
(* the files that exist, the decoded content of the source file, whether   *)
(* cairosvg could be imported) are chosen in Init.  One action models one  *)
(* statement group of the script; one iteration of a for loop is one step. *)
(*                                                                         *)
(* Images are modelled by what the claims observe of them: width, height,  *)
(* mode, and a pixel map made of a fill pixel and a rectangular box with   *)
(* its own pixel (enough to describe a uniform source and a maskable       *)
(* composition).                                                           *)
(***************************************************************************)
EXTENDS Integers, Sequences, FiniteSets, TLC

VARIABLES
    argv,          \* sys.argv
    HAS_CAIROSVG,  \* result of "import cairosvg"
    fs,            \* paths of the regular files that exist
    icons_dir,     \* what the name 'icons' is in the cwd: "absent", "dir", "file"
    content,       \* what the bytes of the source file decode to
    fs0,           \* fs at process start (history)
    icons_dir0,    \* icons_dir at process start (history)
    pc,            \* position in the script
    source,        \* main: source
    source_img,    \* generate_all_icons: source_img
    idx,           \* 1-based position of the running for loop in its list
    written,       \* the files saved so far, in order: [path, format, frames, img]
    loads,         \* number of load_image calls made
    branches,      \* create_icon branches taken so far
    stdout,        \* messages printed (by kind)
    exit_code      \* process exit status, -1 while running

vars == <<argv, HAS_CAIROSVG, fs, icons_dir, content, fs0, icons_dir0, pc,
          source, source_img, idx, written, loads, branches, stdout, exit_code>>

env == <<argv, HAS_CAIROSVG, content, fs0, icons_dir0>>

----------------------------------------------------------------------------
\* Program constants

STANDARD_SIZES == <<16, 32, 57, 60, 72, 76, 96, 114, 120, 128, 144, 152, 180, 192, 384, 512>>

MASKABLE_SIZES == <<192, 512>>

sizes_for_ico == <<16, 32, 48>>

\* Image.new('RGBA', (size, size), (0, 64, 128, 255))
BACKGROUND == <<0, 64, 128, 255>>

\* cairosvg.svg2png(..., output_width=512, output_height=512)
SVG_RENDER_SIZE == 512

None == [none |-> TRUE]

----------------------------------------------------------------------------
\* Paths (pathlib.Path): parent directory, stem and suffix of the last part

MkPath(parent, stem, suffix) == [parent |-> parent, stem |-> stem, suffix |-> suffix]

SCRIPT == MkPath(".", "generate-icons", ".py")

DEFAULT_SVG == MkPath("icons", "icon", ".svg")

DEFAULT_PNG == MkPath("icons", "icon", ".png")

OUTPUT_DIR == "icons"

\* str.lower() on the suffixes that occur
Lower(s) ==
    CASE s = ".SVG" -> ".svg"
      [] s = ".PNG" -> ".png"
      [] OTHER -> s

Digit(d) ==
    CASE d = 0 -> "0" [] d = 1 -> "1" [] d = 2 -> "2" [] d = 3 -> "3"
      [] d = 4 -> "4" [] d = 5 -> "5" [] d = 6 -> "6" [] d = 7 -> "7"
      [] d = 8 -> "8" [] d = 9 -> "9"

\* f'{size}' for a non-negative int
RECURSIVE ToStr(_)
ToStr(n) == IF n < 10 THEN Digit(n) ELSE ToStr(n \div 10) \o Digit(n % 10)

\* the maskable name used for a standard icon
StandardPath_maskable(size) == MkPath(OUTPUT_DIR, "icon-maskable-" \o ToStr(size), ".png")

\* output_dir / f'icon-{size}.png'
StandardPath(size) == MkPath(OUTPUT_DIR, "icon-" \o ToStr(size), ".png")

\* output_dir / f'icon-maskable-{size}.png'
MaskablePath(size) == MkPath(OUTPUT_DIR, "icon-maskable-" \o ToStr(size), ".png")

\* output_dir / 'favicon.ico'
FaviconPath == MkPath(OUTPUT_DIR, "favicon", ".ico")

\* Path(p).exists() for a file path
Exists(p) == p \in fs

----------------------------------------------------------------------------
\* Images

MkImage(w, h, mode, fill, box, inner) ==
    [w |-> w, h |-> h, mode |-> mode, fill |-> fill, box |-> box, inner |-> inner]

\* A uniform image: the box is the whole image
Uniform(w, h, mode, px) == MkImage(w, h, mode, px, <<0, 0, w, h>>, px)

InBox(img, x, y) ==
    /\ img.box[1] <= x /\ x < img.box[3]
    /\ img.box[2] <= y /\ y < img.box[4]

\* img.getpixel((x, y))
GetPixel(img, x, y) == IF InBox(img, x, y) THEN img.inner ELSE img.fill

\* Modes that carry an alpha channel
HasAlpha(mode) == mode \in {"RGBA", "LA"}

\* img.convert('RGBA'): an image without alpha becomes fully opaque
ConvertRGBA(img) ==
    LET opaque(px) == IF HasAlpha(img.mode) THEN px ELSE <<px[1], px[2], px[3], 255>>
    IN  [img EXCEPT !.mode = "RGBA", !.fill = opaque(@), !.inner = opaque(@)]

\* a resize that keeps the aspect ratio of the source (thumbnail-like)
Resize_aspect(img, w, h) ==
    Uniform(w, IF (w * img.h) \div img.w = 0 THEN 1 ELSE (w * img.h) \div img.w,
            img.mode, img.inner)

\* img.resize((w, h), LANCZOS) of a uniform image: uniform, same mode
Resize(img, w, h) == Uniform(w, h, img.mode, img.inner)

\* no padding: the content fills the icon
ContentSize_full(size) == size

\* int(size * 0.8).  0.8 is the double just above 4/5, and for the sizes used
\* the product is more than 0.3 away from the next integer, so the truncation
\* equals floor(8 * size / 10).
ContentSize(size) == (size * 8) \div 10

\* the whole margin put before the content
Offset_unhalved(size, content_size) == size - content_size

\* (size - content_size) // 2
Offset(size, content_size) == (size - content_size) \div 2

\* rounding division by 255 used by the paste blend
Div255(a) == (a + 127) \div 255

\* per-channel blend of the paste with a mask value m
Blend(under, over, m) ==
    [c \in 1..4 |-> Div255(under[c] * (255 - m) + over[c] * m)]

\* background.paste(img, (offset, offset), img): every band, alpha included,
\* is blended with the content's alpha as the mask
PasteMasked(background, img, offset) ==
    [background EXCEPT
        !.box = <<offset, offset, offset + img.w, offset + img.h>>,
        !.inner = Blend(background.fill, img.inner, img.inner[4])]

\* background.paste(img, (offset, offset)): the region is overwritten
PasteOpaque(background, img, offset) ==
    [background EXCEPT
        !.box = <<offset, offset, offset + img.w, offset + img.h>>,
        !.inner = <<img.inner[1], img.inner[2], img.inner[3], 255>>]

----------------------------------------------------------------------------
\* Library calls that can fail

\* Image.open(path): the decoded image, for a file the codec recognises
OpenRaster(c) == Uniform(c.w, c.h, c.mode, c.pixel)

\* Image.open(BytesIO(cairosvg.svg2png(url, output_width=512, output_height=512)))
OpenSvg(c) == Uniform(SVG_RENDER_SIZE, SVG_RENDER_SIZE, "RGBA", c.pixel)

\* The entries Image.save(format='ICO', sizes=...) stores for image im: the
\* plugin skips every requested size that is larger than im itself or larger
\* than 256 pixels, and scales im down to each remaining one.
IcoFrames(im, sizes) ==
    {s \in sizes : s[1] <= im.w /\ s[2] <= im.h /\ s[1] <= 256 /\ s[2] <= 256}

----------------------------------------------------------------------------
\* create_icon(source_img, size, output_path, maskable): the image it saves
\* and the branches it takes on the way

CreateIcon(src, size, maskable) ==
    LET copy == src
        content_size == ContentSize(size)
        resized == Resize(copy, content_size, content_size)
        background == Uniform(size, size, "RGBA", BACKGROUND)
        offset == Offset(size, content_size)
        img == IF maskable
               THEN IF resized.mode = "RGBA"
                    THEN PasteMasked(background, resized, offset)
                    ELSE PasteOpaque(background, resized, offset)
               ELSE Resize(copy, size, size)
        paste == IF ~maskable THEN {}
                 ELSE IF resized.mode = "RGBA" THEN {"paste_mask"} ELSE {"paste_nomask"}
        save == IF img.mode = "RGBA" THEN {"save_rgba"}
                ELSE IF img.mode # "RGB" THEN {"save_convert"} ELSE {"save_rgb"}
        out == IF img.mode # "RGBA" /\ img.mode # "RGB" THEN ConvertRGBA(img) ELSE img
    IN  [img |-> out, taken |-> paste \cup save]

PngFile(path, img) ==
    [path |-> path, format |-> "PNG", frames |-> {<<img.w, img.h>>}, img |-> img]

IcoFile(path, img, sizes) ==
    [path |-> path, format |-> "ICO", frames |-> IcoFrames(img, sizes), img |-> img]

----------------------------------------------------------------------------
\* Inputs

SourcePaths ==
    {DEFAULT_SVG, DEFAULT_PNG, MkPath(".", "logo", ".png"), MkPath(".", "logo", ".SVG")}

Argvs == {<<SCRIPT>>} \cup {<<SCRIPT, p>> : p \in SourcePaths}

Pixels == {<<255, 255, 255, 255>>, <<200, 30, 30, 128>>, <<0, 0, 0, 0>>}

Dims == {<<512, 512>>, <<300, 200>>, <<10, 24>>}

\* What the source file decodes to.  valid = FALSE is a file the codec (or the
\* SVG renderer) rejects.  A mode without alpha has opaque pixels.
Contents ==
    {[valid |-> FALSE, w |-> 1, h |-> 1, mode |-> "RGB", pixel |-> <<0, 0, 0, 255>>]}
    \cup {c \in [valid : {TRUE}, w : {d[1] : d \in Dims}, h : {d[2] : d \in Dims},
                  mode : {"RGBA", "RGB", "P"}, pixel : Pixels] :
            /\ <<c.w, c.h>> \in Dims
            /\ c.mode = "RGBA" \/ c.pixel[4] = 255}

Init ==
    /\ argv \in Argvs
    /\ HAS_CAIROSVG \in BOOLEAN
    /\ fs \in SUBSET SourcePaths
    /\ icons_dir \in IF \E p \in fs : p.parent = OUTPUT_DIR
                     THEN {"dir"} ELSE {"absent", "dir", "file"}
    /\ content \in Contents
    /\ fs0 = fs
    /\ icons_dir0 = icons_dir
    /\ pc = "main"
    /\ source = None
    /\ source_img = None
    /\ idx = 0
    /\ written = <<>>
    /\ loads = 0
    /\ branches = {}
    /\ stdout = IF HAS_CAIROSVG THEN {} ELSE {"warning_cairosvg"}
    /\ exit_code = -1

----------------------------------------------------------------------------
\* main(), lines 130-145

ResolveSource ==
    IF Len(argv) > 1 THEN argv[2]
    ELSE IF Exists(DEFAULT_SVG) THEN DEFAULT_SVG ELSE DEFAULT_PNG

\* main() without the existence check of lines 139-143
Main_unchecked ==
    /\ pc = "main"
    /\ source' = ResolveSource
    /\ pc' = "mkdir"
    /\ UNCHANGED <<env, fs, icons_dir, source_img, idx, written, loads, branches,
                   stdout, exit_code>>

Main ==
    /\ pc = "main"
    /\ source' = ResolveSource
    /\ IF ~Exists(ResolveSource)
       THEN /\ stdout' = stdout \cup {"error_not_found", "usage"}
            /\ pc' = "exit"
            /\ exit_code' = 1
       ELSE /\ pc' = "mkdir"
            /\ UNCHANGED <<stdout, exit_code>>
    /\ UNCHANGED <<env, fs, icons_dir, source_img, idx, written, loads, branches>>

\* generate_all_icons, lines 90-91: output_dir.mkdir(exist_ok=True)
Mkdir ==
    /\ pc = "mkdir"
    /\ IF icons_dir = "file"
       THEN /\ pc' = "crash"                  \* FileExistsError, uncaught
            /\ exit_code' = 1
            /\ UNCHANGED icons_dir
       ELSE /\ icons_dir' = "dir"
            /\ pc' = "load"
            /\ UNCHANGED exit_code
    /\ UNCHANGED <<env, fs, source, source_img, idx, written, loads, branches, stdout>>

\* load_image(source_path), lines 36-51, reading a file that decodes to c:
\* it returns an image, calls sys.exit(1), or lets a library exception out
load_image_hoisted(source_path, c) ==
    IF ~HAS_CAIROSVG
    THEN [outcome |-> "exit", img |-> None]
    ELSE IF ~c.valid
         THEN [outcome |-> "raise", img |-> None]
         ELSE [outcome |-> "return",
               img |-> IF Lower(source_path.suffix) = ".svg"
                       THEN OpenSvg(c) ELSE OpenRaster(c)]

load_image(source_path, c) ==
    IF Lower(source_path.suffix) = ".svg"
    THEN IF ~HAS_CAIROSVG
         THEN [outcome |-> "exit", img |-> None]
         ELSE IF ~c.valid
              THEN [outcome |-> "raise", img |-> None]
              ELSE [outcome |-> "return", img |-> OpenSvg(c)]
    ELSE IF ~c.valid
         THEN [outcome |-> "raise", img |-> None]
         ELSE [outcome |-> "return", img |-> OpenRaster(c)]

\* generate_all_icons, lines 93-94: source_img = load_image(source_path)
LoadImage ==
    /\ pc = "load"
    /\ loads' = loads + 1
    /\ LET r == load_image(source, content)
       IN  CASE r.outcome = "exit" ->
                  /\ stdout' = stdout \cup {"error_svg"}
                  /\ pc' = "exit"
                  /\ exit_code' = 1
                  /\ UNCHANGED source_img
             [] r.outcome = "raise" ->
                  /\ pc' = "crash"
                  /\ exit_code' = 1
                  /\ UNCHANGED <<source_img, stdout>>
             [] r.outcome = "return" ->
                  /\ source_img' = r.img
                  /\ pc' = "normalize"
                  /\ UNCHANGED <<stdout, exit_code>>
    /\ UNCHANGED <<env, fs, icons_dir, source, idx, written, branches>>

\* lines 97-98 without the conversion
EnsureRGBA_skipped(img) == img

\* lines 96-98: "Ensure source is RGBA for transparency support"
EnsureRGBA(img) == IF img.mode # "RGBA" THEN ConvertRGBA(img) ELSE img

\* generate_all_icons, lines 96-100
Normalize ==
    /\ pc = "normalize"
    /\ source_img' = EnsureRGBA(source_img)
    /\ pc' = "standard"
    /\ idx' = 1
    /\ UNCHANGED <<env, fs, icons_dir, source, written, loads, branches, stdout, exit_code>>

\* img.save(path, ...) of file f: the write succeeds, or the OS refuses it and
\* the exception ends the process (Image.save removes a file it had created)
Save_swallowing(f, next_pc, next_idx) ==
    \/ /\ written' = Append(written, f)
       /\ fs' = fs \cup {f.path}
       /\ pc' = next_pc
       /\ idx' = next_idx
       /\ UNCHANGED exit_code
    \/ /\ pc' = next_pc                       \* the failure is ignored
       /\ idx' = next_idx
       /\ UNCHANGED <<written, fs, exit_code>>

Save(f, next_pc, next_idx) ==
    \/ /\ written' = Append(written, f)
       /\ fs' = fs \cup {f.path}
       /\ pc' = next_pc
       /\ idx' = next_idx
       /\ UNCHANGED exit_code
    \/ /\ pc' = "crash"
       /\ exit_code' = 1
       /\ UNCHANGED <<written, fs, idx>>

\* one iteration of the loop at lines 101-102
CreateStandardIcon ==
    /\ pc = "standard"
    /\ LET size == STANDARD_SIZES[idx]
           r == CreateIcon(source_img, size, FALSE)
           last == idx = Len(STANDARD_SIZES)
       IN  /\ branches' = branches \cup r.taken
           /\ Save(PngFile(StandardPath(size), r.img),
                   IF last THEN "maskable" ELSE "standard",
                   IF last THEN 1 ELSE idx + 1)
    /\ UNCHANGED <<env, icons_dir, source, source_img, loads, stdout>>

\* one iteration of the loop at lines 105-106
CreateMaskableIcon ==
    /\ pc = "maskable"
    /\ LET size == MASKABLE_SIZES[idx]
           r == CreateIcon(source_img, size, TRUE)
           last == idx = Len(MASKABLE_SIZES)
       IN  /\ branches' = branches \cup r.taken
           /\ Save(PngFile(MaskablePath(size), r.img),
                   IF last THEN "favicon" ELSE "maskable",
                   IF last THEN 0 ELSE idx + 1)
    /\ UNCHANGED <<env, icons_dir, source, source_img, loads, stdout>>

\* lines 110-115: the resized copies
IcoImages == [k \in 1..Len(sizes_for_ico) |->
                Resize(source_img, sizes_for_ico[k], sizes_for_ico[k])]

\* lines 108-128: favicon.ico and the closing messages
Favicon ==
    /\ pc = "favicon"
    /\ Save(IcoFile(FaviconPath, IcoImages[1],
                    {<<sizes_for_ico[k], sizes_for_ico[k]>> : k \in 1..Len(sizes_for_ico)}),
            "done", 0)
    /\ stdout' = IF pc' = "done" THEN stdout \cup {"all_generated"} ELSE stdout
    /\ UNCHANGED <<env, icons_dir, source, source_img, loads, branches>>

\* the process ends: normal return of main gives status 0
Finish ==
    /\ pc = "done"
    /\ exit_code = -1
    /\ exit_code' = 0
    /\ UNCHANGED <<env, fs, icons_dir, pc, source, source_img, idx, written, loads,
                   branches, stdout>>

Next ==
    \/ Main
    \/ Mkdir
    \/ LoadImage
    \/ Normalize
    \/ CreateStandardIcon
    \/ CreateMaskableIcon
    \/ Favicon
    \/ Finish

Spec == Init /\ [][Next]_vars

----------------------------------------------------------------------------
\* Properties

\* Path.name
Name(p) == p.stem \o p.suffix

WrittenPaths == [i \in 1..Len(written) |-> written[i].path]

WrittenFiles == {written[i] : i \in 1..Len(written)}

StandardNames ==
    {"icon-16.png", "icon-32.png", "icon-57.png", "icon-60.png", "icon-72.png",
     "icon-76.png", "icon-96.png", "icon-114.png", "icon-120.png", "icon-128.png",
     "icon-144.png", "icon-152.png", "icon-180.png", "icon-192.png", "icon-384.png",
     "icon-512.png"}

MaskableNames == {"icon-maskable-192.png", "icon-maskable-512.png"}

ArtifactNames == StandardNames \cup MaskableNames \cup {"favicon.ico"}

\* The order in which generate_all_icons saves its files
ArtifactOrder ==
    [i \in 1..Len(STANDARD_SIZES) |-> StandardPath(STANDARD_SIZES[i])]
    \o [i \in 1..Len(MASKABLE_SIZES) |-> MaskablePath(MASKABLE_SIZES[i])]
    \o <<FaviconPath>>

SetOf(seq) == {seq[i] : i \in 1..Len(seq)}

\* C1: after a run that completes without error, the files written are exactly
\* the 16 icon-<N>.png, the 2 icon-maskable-<N>.png and favicon.ico, all in the
\* output directory, each written once, and nothing else appeared on disk.
C1_ExactOutputSet ==
    pc = "done" =>
        /\ {Name(f.path) : f \in WrittenFiles} = ArtifactNames
        /\ \A f \in WrittenFiles : f.path.parent = "icons"
        /\ Len(written) = 19
        /\ Cardinality(SetOf(WrittenPaths)) = 19
        /\ fs = fs0 \cup SetOf(WrittenPaths)

C1_Witness == pc = "done" /\ exit_code = 0 /\ Len(written) = 19

\* C2: every PNG written has exactly its declared size, (size, size), for the
\* standard and the maskable icons, whatever the dimensions of the source.
C2_DeclaredSize ==
    /\ \A s \in SetOf(STANDARD_SIZES) : \A f \in WrittenFiles :
         f.path = StandardPath(s) =>
            f.format = "PNG" /\ f.img.w = s /\ f.img.h = s /\ f.frames = {<<s, s>>}
    /\ \A s \in SetOf(MASKABLE_SIZES) : \A f \in WrittenFiles :
         f.path = MaskablePath(s) =>
            f.format = "PNG" /\ f.img.w = s /\ f.img.h = s /\ f.frames = {<<s, s>>}

C2_Witness ==
    /\ \E f \in WrittenFiles : f.path = StandardPath(512)
    /\ \E f \in WrittenFiles : f.path = MaskablePath(512)
    /\ content.w # content.h
    /\ Lower(source.suffix) = ".png"

\* C3: the favicon.ico written holds exactly the three resolutions 16x16,
\* 32x32 and 48x48.
C3_FaviconThreeResolutions ==
    \A f \in WrittenFiles :
        f.path = FaviconPath => f.frames = {<<16, 16>>, <<32, 32>>, <<48, 48>>}

\* C4: when the resolved source path does not exist, main prints the usage
\* message and exits non-zero without calling generate_all_icons: nothing is
\* loaded, no file is written and the output directory is not created.
C4_MissingSourceExits ==
    (pc # "main" /\ source \notin fs0) =>
        /\ pc = "exit"
        /\ exit_code = 1
        /\ "usage" \in stdout
        /\ loads = 0
        /\ written = <<>>
        /\ fs = fs0
        /\ icons_dir = icons_dir0

C4_Witness ==
    /\ pc = "exit"
    /\ Len(argv) = 1
    /\ source = DEFAULT_PNG
    /\ icons_dir0 = "absent"
    /\ "usage" \in stdout

\* C5: when the source has a .svg extension and cairosvg is unavailable, the
\* process exits non-zero with the filesystem as it was before the run: no
\* icon file written and no output directory created.
C5_SvgWithoutConverterLeavesNoTrace ==
    (pc = "exit" /\ "error_svg" \in stdout) =>
        /\ exit_code = 1
        /\ written = <<>>
        /\ fs = fs0
        /\ icons_dir = icons_dir0

\* The files a completed run writes for a raster source that decodes to c
RasterArtifacts(c) ==
    LET src == EnsureRGBA(OpenRaster(c))
    IN  [i \in 1..Len(STANDARD_SIZES) |->
            PngFile(StandardPath(STANDARD_SIZES[i]),
                    CreateIcon(src, STANDARD_SIZES[i], FALSE).img)]
        \o [i \in 1..Len(MASKABLE_SIZES) |->
            PngFile(MaskablePath(MASKABLE_SIZES[i]),
                    CreateIcon(src, MASKABLE_SIZES[i], TRUE).img)]
        \o <<IcoFile(FaviconPath, Resize(src, 16, 16), {<<16, 16>>, <<32, 32>>, <<48, 48>>})>>

\* C6: without cairosvg and with a source that is not .svg, the missing
\* dependency only prints a warning: load_image does not exit, and the run
\* writes what the source alone determines, all 19 artifacts when it completes.
C6_MissingRasterizerOnlyWarns ==
    (~HAS_CAIROSVG /\ pc \notin {"main", "mkdir"} /\ source \in fs0
        /\ Lower(source.suffix) # ".svg") =>
        /\ "warning_cairosvg" \in stdout
        /\ "error_svg" \notin stdout
        /\ pc # "exit"
        /\ written = SubSeq(RasterArtifacts(content), 1, Len(written))
        /\ pc = "done" => Len(written) = 19

C6_Witness ==
    /\ pc = "done"
    /\ ~HAS_CAIROSVG
    /\ source.suffix = ".png"
    /\ Len(written) = 19

MaskableFiles ==
    {<<s, f>> \in SetOf(MASKABLE_SIZES) \X WrittenFiles : f.path = MaskablePath(s)}

\* C7 as stated: the margin before the pasted content equals the margin
\* after it on each axis.
C7_ExactlyCentred ==
    \A sf \in MaskableFiles :
        LET s == sf[1]  b == sf[2].img.box
        IN  /\ b[1] = s - b[3]
            /\ b[2] = s - b[4]

\* C7 amended: the content is floor(size * 0.8) wide and high and is pasted
\* at offset floor((size - content_size) / 2) on each axis; the margin after
\* it is the margin before it or one pixel more.
C7_CentredWithinOnePixel ==
    \A sf \in MaskableFiles :
        LET s == sf[1]  b == sf[2].img.box
        IN  /\ b[3] - b[1] = (4 * s) \div 5
            /\ b[4] - b[2] = (4 * s) \div 5
            /\ 2 * b[1] \in {s - (b[3] - b[1]), s - (b[3] - b[1]) - 1}
            /\ b[2] = b[1]
            /\ (s - b[3]) - b[1] \in {0, 1}
            /\ (s - b[4]) - b[2] \in {0, 1}

C7_Witness ==
    /\ \E sf \in MaskableFiles : sf[1] = 192 /\ sf[2].img.box = <<19, 19, 172, 172>>
    /\ \E sf \in MaskableFiles : sf[1] = 512 /\ sf[2].img.box = <<51, 51, 460, 460>>

\* C8: in every maskable icon the four corner pixels lie outside the pasted
\* content and are the background colour (0,64,128) with alpha 255, and the
\* centre pixel lies inside the pasted content, for any source.
C8_CornersAreBackground ==
    \A sf \in MaskableFiles :
        LET s == sf[1]  img == sf[2].img
        IN  /\ \A x \in {0, s - 1}, y \in {0, s - 1} :
                 /\ ~InBox(img, x, y)
                 /\ GetPixel(img, x, y) = <<0, 64, 128, 255>>
            /\ InBox(img, s \div 2, s \div 2)

C8_Witness ==
    /\ content.pixel[4] = 0
    /\ content.mode = "RGBA"
    /\ \E sf \in MaskableFiles : sf[1] = 192
    /\ \E sf \in MaskableFiles : sf[1] = 512

\* C9: the source is loaded once, before any file is written; the files are
\* written in the fixed order standard, maskable, favicon.ico, so at every
\* point, an abort included, the files written are a prefix of that order and
\* favicon.ico exists only after all 18 PNGs.
C9_WrittenIsPrefix ==
    /\ loads <= 1
    /\ written # <<>> => loads = 1
    /\ Len(written) <= Len(ArtifactOrder)
    /\ WrittenPaths = SubSeq(ArtifactOrder, 1, Len(written))
    /\ fs = fs0 \cup SetOf(WrittenPaths)
    /\ (FaviconPath \in fs) =>
          SetOf(SubSeq(ArtifactOrder, 1, 18)) \subseteq SetOf(WrittenPaths)

C9_Witness == pc = "crash" /\ Len(written) = 17 /\ loads = 1

\* C10: in every create_icon call the image is RGBA at the maskable paste and
\* at save time: the paste without mask and the conversion before saving are
\* never taken, whatever the pixel format of the source.
C10_AlwaysRGBA ==
    /\ branches \subseteq {"paste_mask", "save_rgba"}
    /\ pc \in {"standard", "maskable", "favicon", "done"} => source_img.mode = "RGBA"
    /\ \A f \in WrittenFiles : f.img.mode = "RGBA"

C10_Witness ==
    /\ pc = "done"
    /\ content.mode = "P"
    /\ source.suffix = ".png"
    /\ branches = {"paste_mask", "save_rgba"}

====
